---- MODULE Spec2Model ----
(***************************************************************************)
(* The Sparkify data-lake job (src/etl.py) and its launcher (src/run.py).  *)
(*                                                                         *)
(* src/etl.py: main() runs process_song_data, clears the cache, runs       *)
(* process_log_data, reads the five tables back to log their row counts    *)
(* and stops the session.  src/run.py: main() uploads two files and asks   *)
(* for an EMR cluster.                                                     *)
(*                                                                         *)
(* Values.  Every column is nullable (the JSON read is PERMISSIVE), so a   *)
(* column value is a sequence: << >> is SQL NULL and <<v>> is the value v. *)
(* The text of the ts column is written as the number it spells.           *)
(***************************************************************************)
EXTENDS Integers, Sequences, FiniteSets, TLC

\* ------------------------------------------------------------------ bounds

\* Most catalog records (song_data) in one input.
MaxSongRecords == 2
\* Most log records (log_data) in one input.
MaxLogRecords == 2
\* Most rows the join of line 103 yields on the inputs drawn.
MaxJoinRows == 2

\* The partitions the engine may spread the joined rows over.
Partitions == {0, 1}

\* ------------------------------------------------------------------ values

NULL == << >>
V(x) == << x >>

\* SQL equality as a filter or join condition: NULL = anything is not true.
SqlEq(a, b) == a # NULL /\ b # NULL /\ a = b

\* ------------------------------------------------------------------ inputs

\* A catalog record with every column of schema["song_data"].
SongRecord(song_id, title, artist_id, artist_name, duration) ==
    [artist_id |-> artist_id, artist_latitude |-> V(51),
     artist_location |-> V("London"), artist_longitude |-> V(0),
     artist_name |-> artist_name, duration |-> duration, num_songs |-> V(1),
     song_id |-> song_id, title |-> title, year |-> V(2005)]

\* The catalog records the inputs are drawn from: a song, the same song id
\* with another duration, and two records the permissive read null-filled
\* (no song_id; no title).
SongSamples ==
    << SongRecord(V("SOXYZ123"), V("Fix You"), V("ARXYZ456"), V("Coldplay"), V(295)),
       SongRecord(V("SOXYZ123"), V("Fix You"), V("ARXYZ456"), V("Coldplay"), V(296)),
       SongRecord(NULL, V("Fix You"), V("ARABC000"), V("Boyce Avenue"), V(271)),
       SongRecord(V("SODEF555"), NULL, V("ARXYZ456"), V("Coldplay"), V(240)) >>

\* A log record with every column of schema["log_data"].
LogRecord(page, song, ts, userId, level) ==
    [artist |-> V("Coldplay"), auth |-> V("Logged In"), firstName |-> V("Ryan"),
     gender |-> V("M"), itemInSession |-> V(0), lastName |-> V("Smith"),
     length |-> V(295), level |-> level, location |-> V("San Jose"),
     method |-> V("PUT"), page |-> page, registration |-> V(1),
     sessionId |-> V(100), song |-> song, status |-> V(200), ts |-> ts,
     userAgent |-> V("Mozilla"), userId |-> userId]

\* The log records the inputs are drawn from: a play of a catalog title, a
\* play of an unknown title, a page view, a record whose page the permissive
\* read null-filled, and a play whose song and ts it null-filled.
LogSamples ==
    << LogRecord(V("NextSong"), V("Fix You"), V(1500), V("26"), V("free")),
       LogRecord(V("NextSong"), V("Yellow"), V(90061000), V("26"), V("free")),
       LogRecord(V("Home"), V("Fix You"), V(7200000), V("26"), V("free")),
       LogRecord(NULL, V("Fix You"), V(7300000), V("26"), V("free")),
       LogRecord(V("NextSong"), NULL, NULL, V("26"), V("free")) >>

\* The inputs of at most n records drawn from samples.  A dataset has no row
\* order of its own, so one order stands for all of them.
Datasets(samples, n) ==
    UNION { { [i \in 1..k |-> samples[f[i]]] :
              f \in { g \in [1..k -> DOMAIN samples] :
                        \A i \in 1..k, j \in 1..k : i <= j => g[i] <= g[j] } } :
            k \in 0..n }

\* ------------------------------------------------------------------ engine

\* tables (src/etl.py line 17), in the order main() counts them.
tables == << "songs", "artists", "users", "time", "songplays" >>

\* A DataFrame or a stored table is a bag of rows: a function from its
\* distinct rows to the number of copies of each.

\* df.select(...) / df.selectExpr(...): the DataFrame of the rows row[i],
\* one per record i kept, duplicates kept.
Select(row) ==
    [r \in { row[i] : i \in DOMAIN row } |->
        Cardinality({ i \in DOMAIN row : row[i] = r })]

\* dropDuplicates left out: every copy is kept.
dropDuplicatesLeftOut(df) == df

\* .dropDuplicates(): one copy of each distinct row.
dropDuplicates(df) == [r \in DOMAIN df |-> 1]

\* The columns of songs_table (line 136).
SongsRow(rec) ==
    [song_id |-> rec.song_id, title |-> rec.title, artist_id |-> rec.artist_id,
     year |-> rec.year, duration |-> rec.duration]

\* songs_table of line 136.
songs_table(data) == dropDuplicates(Select([i \in DOMAIN data |-> SongsRow(data[i])]))

\* The columns of artists_table (lines 143-145).
ArtistsRow(rec) ==
    [artist_id |-> rec.artist_id, name |-> rec.artist_name,
     location |-> rec.artist_location, latitude |-> rec.artist_latitude,
     longitude |-> rec.artist_longitude]

\* artists_table of lines 143-146.
artists_table(data) == dropDuplicates(Select([i \in DOMAIN data |-> ArtistsRow(data[i])]))

\* The filter written null-unsafely: a record whose page is NULL passes.
NextSongFilterNullPasses(data) ==
    { i \in DOMAIN data : data[i].page = NULL \/ data[i].page = V("NextSong") }

\* .where(F.col("page") == "NextSong") of line 78: the records kept.
NextSongFilter(data) == { i \in DOMAIN data : SqlEq(data[i].page, V("NextSong")) }

\* The columns of users_table (lines 82-83).
UsersRow(rec) ==
    [user_id |-> rec.userId, first_name |-> rec.firstName,
     last_name |-> rec.lastName, gender |-> rec.gender, level |-> rec.level]

\* users_table of lines 82-84.
users_table(data) ==
    dropDuplicates(Select([i \in NextSongFilter(data) |-> UsersRow(data[i])]))

\* F.to_timestamp(F.from_unixtime(df["ts"]/1000), ...) of line 91, in epoch
\* seconds: the milliseconds are dropped on the way through the text
\* "yyyy-MM-dd HH:mm:ss"; a NULL ts gives a NULL start_time.
start_time(ts) == IF ts = NULL THEN NULL ELSE V(ts[1] \div 1000)

\* The calendar columns of lines 92-95, for timestamps of January 1970 (UTC),
\* which began on a Thursday (dayofweek 5, ISO week 1).
hour(st) == IF st = NULL THEN NULL ELSE V((st[1] \div 3600) % 24)
dayofmonth(st) == IF st = NULL THEN NULL ELSE V((st[1] \div 86400) + 1)
weekofyear(st) == IF st = NULL THEN NULL ELSE V((((st[1] \div 86400) + 3) \div 7) + 1)
month(st) == IF st = NULL THEN NULL ELSE V(1)
year(st) == IF st = NULL THEN NULL ELSE V(1970)
dayofweek(st) == IF st = NULL THEN NULL ELSE V((((st[1] \div 86400) + 4) % 7) + 1)

\* The columns of time_table (lines 92-95) for one log record.
TimeRow(rec) ==
    LET st == start_time(rec.ts)
    IN [start_time |-> st, hour |-> hour(st), day |-> dayofmonth(st),
        week |-> weekofyear(st), month |-> month(st), year |-> year(st),
        weekday |-> dayofweek(st)]

\* time_table of lines 91-96.
time_table(data) ==
    dropDuplicates(Select([i \in NextSongFilter(data) |-> TimeRow(data[i])]))

\* The join condition written null-safely (<=>): NULL matches NULL.
JoinConditionNullSafe(rec, song) == rec.song = song.title

\* The join condition of line 103: df.song == df_songs.title.
JoinCondition(rec, song) == SqlEq(rec.song, song.title)

\* The join after a deduplication of the songs rows by title: a log record
\* gets one of the rows its title matches.
JoinOnePerTitle(data, songs) ==
    { << i, CHOOSE r \in DOMAIN songs : JoinCondition(data[i], r), 1 >> :
        i \in { j \in NextSongFilter(data) :
                  \E r \in DOMAIN songs : JoinCondition(data[j], r) } }

\* df.join(df_songs, ..., how = "inner") of line 103: the joined pairs
\* << log record, songs row, copy of that songs row >>.
Join(data, songs) ==
    UNION { { << q[1], q[2], c >> : c \in 1 .. songs[q[2]] } :
            q \in { x \in NextSongFilter(data) \X (DOMAIN songs) :
                      JoinCondition(data[x[1]], x[2]) } }

\* F.monotonically_increasing_id(): the partition in the upper bits, the
\* row's position in its partition in the lower 33 bits.  The two parts are
\* kept apart: [part |-> p, row |-> k] is the 64-bit number p * 2^33 + k.
monotonically_increasing_id(p, k) == [part |-> p, row |-> k]

\* id + n of line 104 (no partition here holds 2^33 rows, so nothing carries).
IdPlus(id, n) == [part |-> id.part, row |-> id.row + n]

\* The ways the engine may lay the joined rows out: each row in a partition
\* at a position, the positions of a partition being 0, 1, ... without gaps.
Placements(J) ==
    { f \in [J -> Partitions \X (0 .. Cardinality(J) - 1)] :
        /\ \A a \in J, b \in J : a # b => f[a] # f[b]
        /\ \A a \in J : \A k \in 0 .. f[a][2] - 1 :
              \E b \in J : f[b] = << f[a][1], k >> }

\* df.withColumn("songplay_id", F.monotonically_increasing_id()+1) of line 104.
songplay_id(place) == IdPlus(monotonically_increasing_id(place[1], place[2]), 1)

\* The row of songplays_table (lines 108-112) for one joined pair.  origin is
\* not a column: it records the log record and the songs row the row is from.
SongplayRow(data, p, place) ==
    [songplay_id |-> songplay_id(place),
     start_time |-> start_time(data[p[1]].ts),
     user_id |-> data[p[1]].userId, level |-> data[p[1]].level,
     song_id |-> p[2].song_id, artist_id |-> p[2].artist_id,
     session_id |-> data[p[1]].sessionId, location |-> data[p[1]].location,
     user_agent |-> data[p[1]].userAgent,
     origin |-> [event |-> p[1], song |-> p[2], copy |-> p[3]]]

\* songplays_table for one layout f of the joined rows.
songplays_table(data, songs, f) ==
    [r \in { SongplayRow(data, p, f[p]) : p \in Join(data, songs) } |->
        Cardinality({ p \in Join(data, songs) : SongplayRow(data, p, f[p]) = r })]

\* ------------------------------------------------------------------ state

VARIABLES
    song_data,  \* the catalog records under song_data_path
    log_data,   \* the log records under log_data_path
    store,      \* output_path: table name -> NULL (no such path) or <<rows>>
    prev,       \* store as it was when the current run started
    run,        \* "first" or "second": which run of etl.py this is
    pc,         \* the step of EtlMain the run is at
    status,     \* "running", "done" (main returned) or "failed" (it raised)
    written,    \* the tables the current run has written
    df_songs,   \* the songs table as line 102 read it, NULL before that
    counted,    \* the tables the loop of lines 165-170 has attempted
    errors,     \* the number of read errors line 170 has logged
    stopped,    \* spark.stop() of line 172 was called
    s3_outcome,   \* launcher: what s3.upload_file does for each file
    emr_outcome,  \* launcher: what emr.run_job_flow does
    l_pc,         \* launcher: the step of run.py's main()
    file_i,       \* launcher: the loop of line 39 is at files[file_i]
    exception,    \* launcher: the exception that ended main(), or "none"
    response,     \* launcher: upload_files' local variable, "unbound" at first
    attempts,     \* launcher: upload_file calls made per file
    bucket,       \* launcher: what the bucket holds per file
    requests      \* launcher: run_job_flow calls made

job_vars == << song_data, log_data, store, prev, run, pc, status, written,
               df_songs, counted, errors, stopped >>
launch_vars == << s3_outcome, emr_outcome, l_pc, file_i, exception, response,
                  attempts, bucket, requests >>
vars == << job_vars, launch_vars >>

\* ------------------------------------------------------------------ etl.py

\* The engine calls of process_song_data (lines 119-150), in order.
process_song_data == << "read_song_data", "write_songs", "write_artists" >>

\* The engine calls of process_log_data (lines 65-117), in order.
process_log_data ==
    << "read_log_data", "write_users", "write_time", "read_songs",
       "write_songplays" >>

\* main() with the two transformers in the other order.
EtlMainLogFirst ==
    << "initialize_SparkSession" >> \o process_log_data \o << "clearCache" >>
        \o process_song_data \o << "count", "stop" >>

\* main() of etl.py (lines 159-172).
EtlMain ==
    << "initialize_SparkSession" >> \o process_song_data \o << "clearCache" >>
        \o process_log_data \o << "count", "stop" >>

\* The step a running job is at.
At(step) == status = "running" /\ EtlMain[pc] = step

\* What an output path held before some earlier, unrelated run wrote it.
StaleSongData ==
    << SongRecord(V("SOOLD0001"), V("Fix You"), V("AROLD0001"), V("Old Band"), V(200)) >>
StaleLogData ==
    << LogRecord(V("NextSong"), V("Fix You"), V(3000), V("99"), V("paid")) >>
StaleStore ==
    LET songs == songs_table(StaleSongData)
        J == Join(StaleLogData, songs)
    IN [t \in { tables[i] : i \in DOMAIN tables } |->
          CASE t = "songs" -> V(songs)
            [] t = "artists" -> V(artists_table(StaleSongData))
            [] t = "users" -> V(users_table(StaleLogData))
            [] t = "time" -> V(time_table(StaleLogData))
            [] t = "songplays" ->
                 V(songplays_table(StaleLogData, songs, [p \in J |-> << 0, 0 >>]))]

\* No output path exists yet.
FreshStore == [t \in { tables[i] : i \in DOMAIN tables } |-> NULL]

\* The job before its first run: any inputs within the bounds, and an output
\* path that is new or holds the tables of an earlier run on other inputs.
JobInit ==
    /\ song_data \in Datasets(SongSamples, MaxSongRecords)
    /\ log_data \in Datasets(LogSamples, MaxLogRecords)
    /\ Cardinality(Join(log_data, songs_table(song_data))) <= MaxJoinRows
    /\ store \in { FreshStore, StaleStore }
    /\ prev = store
    /\ run = "first"
    /\ pc = 1
    /\ status = "running"
    /\ written = {}
    /\ df_songs = NULL
    /\ counted = << >>
    /\ errors = 0
    /\ stopped = FALSE

\* Line 159: initialize_SparkSession().
InitializeSparkSession ==
    /\ At("initialize_SparkSession")
    /\ pc' = pc + 1
    /\ UNCHANGED << launch_vars, song_data, log_data, store, prev, run, status, written,
                    df_songs, counted, errors, stopped >>

\* A failure handled by restoring the output path to what the run found.
RaiseRollback ==
    /\ status' = "failed"
    /\ store' = prev
    /\ UNCHANGED << launch_vars, song_data, log_data, prev, run, pc, written,
                    df_songs, counted, errors, stopped >>

\* An engine call that raises: nothing catches it in the transformers or in
\* main(), so the process ends there.
Raise ==
    /\ status' = "failed"
    /\ UNCHANGED << launch_vars, song_data, log_data, store, prev, run, pc, written,
                    df_songs, counted, errors, stopped >>

\* spark.read.json of line 132 or 77: it returns, or it raises.
ReadInput(step) ==
    /\ At(step)
    /\ \/ /\ pc' = pc + 1
          /\ UNCHANGED << launch_vars, song_data, log_data, store, prev, run, status,
                          written, df_songs, counted, errors, stopped >>
       \/ Raise

\* Line 132.
ReadSongData == ReadInput("read_song_data")

\* Lines 77-78.
ReadLogData == ReadInput("read_log_data")

\* A write that raises after the engine has begun to overwrite: the save
\* modes are not atomic and an overwrite deletes the data before it writes
\* the new rows, so the path is left holding left.
RaiseMidWrite(table, left) ==
    /\ status' = "failed"
    /\ store' = [store EXCEPT ![table] = left]
    /\ UNCHANGED << launch_vars, song_data, log_data, prev, run, pc, written,
                    df_songs, counted, errors, stopped >>

\* df.write...parquet(path, mode = "overwrite"): the table is replaced by
\* rows; or the write raises, before it touched the path, after it deleted
\* what the path held, or after it wrote only some of the new rows.
Write(step, table, rows) ==
    /\ At(step)
    /\ \/ /\ store' = [store EXCEPT ![table] = V(rows)]
          /\ written' = written \cup {table}
          /\ pc' = pc + 1
          /\ UNCHANGED << launch_vars, song_data, log_data, prev, run, status,
                          df_songs, counted, errors, stopped >>
       \/ Raise
       \/ RaiseMidWrite(table, NULL)
       \/ \E some \in (SUBSET DOMAIN rows) \ {DOMAIN rows} :
             RaiseMidWrite(table, V([r \in some |-> rows[r]]))

\* Lines 136-139.
WriteSongs == Write("write_songs", "songs", songs_table(song_data))

\* Lines 143-148.
WriteArtists == Write("write_artists", "artists", artists_table(song_data))

\* Line 161: spark.catalog.clearCache().
ClearCache ==
    /\ At("clearCache")
    /\ pc' = pc + 1
    /\ UNCHANGED << launch_vars, song_data, log_data, store, prev, run, status, written,
                    df_songs, counted, errors, stopped >>

\* The rows of two DataFrames together.
UnionAll(a, b) ==
    [r \in DOMAIN a \cup DOMAIN b |->
        (IF r \in DOMAIN a THEN a[r] ELSE 0) + (IF r \in DOMAIN b THEN b[r] ELSE 0)]

\* users written with mode = "append": the rows are added to what the path
\* holds.
WriteUsersAppend ==
    /\ At("write_users")
    /\ \/ /\ store' = [store EXCEPT !["users"] =
                        IF @ = NULL THEN V(users_table(log_data))
                        ELSE V(UnionAll(@[1], users_table(log_data)))]
          /\ written' = written \cup {"users"}
          /\ pc' = pc + 1
          /\ UNCHANGED << launch_vars, song_data, log_data, prev, run, status,
                          df_songs, counted, errors, stopped >>
       \/ Raise

\* Lines 82-87.
WriteUsers == Write("write_users", "users", users_table(log_data))

\* Lines 91-99.
WriteTime == Write("write_time", "time", time_table(log_data))

\* Line 102: spark.read.parquet(output/songs) returns what the path holds,
\* or raises (always so when there is no such path).
ReadSongs ==
    /\ At("read_songs")
    /\ \/ /\ store["songs"] # NULL
          /\ df_songs' = store["songs"]
          /\ pc' = pc + 1
          /\ UNCHANGED << launch_vars, song_data, log_data, store, prev, run, status,
                          written, counted, errors, stopped >>
       \/ Raise

\* Lines 103-115: the join, the ids for the engine's layout of the joined
\* rows, and the write.
WriteSongplays ==
    /\ At("write_songplays")
    /\ df_songs # NULL
    /\ \E f \in Placements(Join(log_data, df_songs[1])) :
          Write("write_songplays", "songplays",
                songplays_table(log_data, df_songs[1], f))

\* The loop without its try/except: a read error leaves main().
CountTableUncaught ==
    /\ status = "running" /\ EtlMain[pc] = "count"
    /\ LET table == tables[Len(counted) + 1]
       IN /\ counted' = Append(counted, table)
          /\ \/ /\ store[table] # NULL
                /\ status' = status
                /\ pc' = IF Len(counted') = Len(tables) THEN pc + 1 ELSE pc
             \/ /\ status' = "failed"
                /\ pc' = pc
    /\ UNCHANGED << launch_vars, song_data, log_data, store, prev, run, written,
                    df_songs, errors, stopped >>

\* Lines 165-170, one turn of the loop: the next table is read and counted,
\* or the read raises and the error is logged; the loop goes on either way.
CountTable ==
    /\ At("count")
    /\ LET table == tables[Len(counted) + 1]
       IN /\ counted' = Append(counted, table)
          /\ \/ /\ store[table] # NULL
                /\ errors' = errors
             \/ errors' = errors + 1
    /\ pc' = IF Len(counted') = Len(tables) THEN pc + 1 ELSE pc
    /\ UNCHANGED << launch_vars, song_data, log_data, store, prev, run, status, written,
                    df_songs, stopped >>

\* Line 172: spark.stop(), and main() returns.
Stop ==
    /\ At("stop")
    /\ stopped' = TRUE
    /\ status' = "done"
    /\ UNCHANGED << launch_vars, song_data, log_data, store, prev, run, pc, written,
                    df_songs, counted, errors >>

\* etl.py is run again on the same inputs after a run that returned.
Rerun ==
    /\ status = "done"
    /\ run = "first"
    /\ run' = "second"
    /\ prev' = store
    /\ pc' = 1
    /\ status' = "running"
    /\ written' = {}
    /\ df_songs' = NULL
    /\ counted' = << >>
    /\ errors' = 0
    /\ stopped' = FALSE
    /\ UNCHANGED << launch_vars, song_data, log_data, store >>

JobNext ==
    \/ InitializeSparkSession
    \/ ReadSongData
    \/ WriteSongs
    \/ WriteArtists
    \/ ClearCache
    \/ ReadLogData
    \/ WriteUsers
    \/ WriteTime
    \/ ReadSongs
    \/ WriteSongplays
    \/ CountTable
    \/ Stop
    \/ Rerun

\* ------------------------------------------------------------------ run.py

\* files (src/run.py line 17).
files == << "etl.py", "dl.cfg" >>
FileNames == { files[i] : i \in DOMAIN files }

\* What s3.upload_file may do: return, raise botocore's ClientError, or raise
\* something else.
UploadOutcomes == { "ok", "ClientError", "OtherError" }

\* The launcher before main(): any behaviour of the two services, and a
\* bucket that may hold earlier copies of the files.
LaunchInit ==
    /\ s3_outcome \in [FileNames -> UploadOutcomes]
    /\ emr_outcome \in { "ok", "error" }
    /\ bucket \in [FileNames -> { "absent", "stale" }]
    /\ l_pc = "upload_files"
    /\ file_i = 1
    /\ exception = "none"
    /\ response = "unbound"
    /\ attempts = [f \in FileNames |-> 0]
    /\ requests = 0

\* Lines 39-46, one turn of the loop of upload_files: upload_file returns
\* None, which is bound to response; a ClientError is printed and the loop
\* goes on; any other exception leaves upload_files and main().
UploadFile ==
    /\ l_pc = "upload_files"
    /\ LET file_name == files[file_i]
       IN /\ attempts' = [attempts EXCEPT ![file_name] = @ + 1]
          /\ \/ /\ s3_outcome[file_name] = "ok"
                /\ bucket' = [bucket EXCEPT ![file_name] = "current"]
                /\ response' = "None"
                /\ l_pc' = IF file_i = Len(files) THEN "return" ELSE l_pc
                /\ UNCHANGED exception
             \/ /\ s3_outcome[file_name] = "ClientError"
                /\ l_pc' = IF file_i = Len(files) THEN "return" ELSE l_pc
                /\ UNCHANGED << bucket, response, exception >>
             \/ /\ s3_outcome[file_name] = "OtherError"
                /\ l_pc' = "raised"
                /\ exception' = "OtherError"
                /\ UNCHANGED << bucket, response >>
    /\ file_i' = file_i + 1
    /\ UNCHANGED << job_vars, s3_outcome, emr_outcome, requests >>

\* Line 48: return response.  A local never bound raises UnboundLocalError,
\* which main() does not catch.
ReturnResponse ==
    /\ l_pc = "return"
    /\ \/ /\ response # "unbound"
          /\ l_pc' = "create_emr_cluster"
          /\ UNCHANGED exception
       \/ /\ response = "unbound"
          /\ l_pc' = "raised"
          /\ exception' = "UnboundLocalError"
    /\ UNCHANGED << job_vars, s3_outcome, emr_outcome, file_i, response, attempts,
                    bucket, requests >>

\* Lines 50-116: create_emr_cluster() makes one run_job_flow request; its
\* failure is not caught.
CreateEmrCluster ==
    /\ l_pc = "create_emr_cluster"
    /\ requests' = requests + 1
    /\ \/ /\ emr_outcome = "ok"
          /\ l_pc' = "done"
          /\ UNCHANGED exception
       \/ /\ emr_outcome = "error"
          /\ l_pc' = "raised"
          /\ exception' = "EmrError"
    /\ UNCHANGED << job_vars, s3_outcome, emr_outcome, file_i, response, attempts,
                    bucket >>

\* main() of run.py (lines 125-126).
LaunchNext ==
    \/ UploadFile
    \/ ReturnResponse
    \/ CreateEmrCluster

\* The launcher not started, for the job's specification.
LaunchIdle ==
    /\ s3_outcome = [f \in FileNames |-> "ok"]
    /\ emr_outcome = "ok"
    /\ bucket = [f \in FileNames |-> "absent"]
    /\ l_pc = "idle"
    /\ file_i = 1
    /\ exception = "none"
    /\ response = "unbound"
    /\ attempts = [f \in FileNames |-> 0]
    /\ requests = 0

\* The job not started, for the launcher's specification.
JobIdle ==
    /\ song_data = << >>
    /\ log_data = << >>
    /\ store = FreshStore
    /\ prev = FreshStore
    /\ run = "first"
    /\ pc = 1
    /\ status = "idle"
    /\ written = {}
    /\ df_songs = NULL
    /\ counted = << >>
    /\ errors = 0
    /\ stopped = FALSE

\* ------------------------------------------------------------------ specifications

\* python etl.py, once or twice.
Init == JobInit /\ LaunchIdle
Next == JobNext
Spec == Init /\ [][Next]_vars

\* python run.py.
LaunchSpecInit == LaunchInit /\ JobIdle
LaunchSpecNext == LaunchNext
LaunchSpec == LaunchSpecInit /\ [][LaunchSpecNext]_vars

\* ------------------------------------------------------------------ properties

TableNames == { tables[i] : i \in DOMAIN tables }

\* The distinct rows a stored table holds (none when the path is missing).
Rows(st, t) == IF st[t] = NULL THEN {} ELSE DOMAIN st[t][1]

\* The number of rows of a bag df among rows.
RECURSIVE SumOver(_, _)
SumOver(df, rows) ==
    IF rows = {} THEN 0
    ELSE LET r == CHOOSE x \in rows : TRUE
         IN df[r] + SumOver(df, rows \ {r})

\* The order of the 64-bit ids.
IdLess(a, b) == a.part < b.part \/ (a.part = b.part /\ a.row < b.row)

\* The 64-bit id 1.
IdOne == [part |-> 0, row |-> 1]

\* A songplays row without its songplay_id column.
SansId(r) == [c \in (DOMAIN r) \ {"songplay_id"} |-> r[c]]

\* A songplays table without its songplay_id column, copies counted.
WithoutIds(t) ==
    IF t = NULL THEN NULL
    ELSE V([x \in { SansId(r) : r \in DOMAIN t[1] } |->
              SumOver(t[1], { r \in DOMAIN t[1] : SansId(r) = x })])

\* The steps of main() from process_log_data on.
LogOrLater == { process_log_data[i] : i \in DOMAIN process_log_data } \cup { "count", "stop" }

\* The job has begun process_log_data in the current run.
InLog == status # "idle" /\ EtlMain[pc] \in LogOrLater

\* The table a write step writes.
TableOf(step) ==
    CASE step = "write_songs" -> "songs"
      [] step = "write_artists" -> "artists"
      [] step = "write_users" -> "users"
      [] step = "write_time" -> "time"
      [] step = "write_songplays" -> "songplays"

WriteSteps == { "write_songs", "write_artists", "write_users", "write_time", "write_songplays" }

\* The position of a table in the order it is written and counted.
Position(t) == CHOOSE i \in DOMAIN tables : tables[i] = t

\* C1: process_log_data starts, reads the songs table and builds songplays
\* only after process_song_data has written songs (and artists) in the same
\* run: what line 102 reads, and every songs row a songplays row written in
\* this run comes from, is the songs table of the current inputs.
C1_LogAfterSongs ==
    /\ InLog => /\ {"songs", "artists"} \subseteq written
                /\ store["songs"] = V(songs_table(song_data))
    /\ df_songs # NULL => /\ "songs" \in written
                          /\ df_songs = V(songs_table(song_data))
    /\ "songplays" \in written =>
          \A r \in Rows(store, "songplays") :
              r.origin.song \in { SongsRow(song_data[i]) : i \in DOMAIN song_data }

\* A run over an output path that held an older songs table of the same
\* title has written songplays rows.
C1_Witness ==
    /\ run = "first"
    /\ prev = StaleStore
    /\ "songplays" \in written
    /\ Rows(store, "songplays") # {}

\* C2: whatever upload_file does for each file (return or ClientError), each
\* file is attempted exactly once and create_emr_cluster is then called.
C2_UploadsThenCluster ==
    (/\ l_pc \in { "done", "raised" }
     /\ \A f \in FileNames : s3_outcome[f] \in { "ok", "ClientError" })
    => /\ \A f \in FileNames : attempts[f] = 1
       /\ requests = 1

\* C3: in the counting loop a failed read is logged and never raised: the
\* five tables are attempted in order however many reads fail, the job never
\* fails there, and it ends with spark.stop() called.
C3_CountNeverRaises ==
    /\ (status # "idle" /\ EtlMain[pc] \in { "count", "stop" }) =>
          /\ status # "failed"
          /\ counted = SubSeq(tables, 1, Len(counted))
          /\ errors <= Len(counted)
    /\ (status # "idle" /\ EtlMain[pc] = "stop") => counted = tables
    /\ status = "done" => (counted = tables /\ stopped)
    /\ stopped => status = "done"

\* All five reads failed and the job still returned normally.
C3_Witness == status = "done" /\ errors = Len(tables) /\ stopped

\* The songplays rows of the current inputs, without their ids.
ExpectedSongplays ==
    { SansId(SongplayRow(log_data, p, << 0, 0 >>)) :
        p \in Join(log_data, songs_table(song_data)) }

\* What the current run writes to a table other than songplays.
Current(t) ==
    CASE t = "songs" -> songs_table(song_data)
      [] t = "artists" -> artists_table(song_data)
      [] t = "users" -> users_table(log_data)
      [] t = "time" -> time_table(log_data)

\* The table t holds what the current run writes to it.
HoldsCurrent(t) ==
    IF t = "songplays"
    THEN /\ store[t] # NULL
         /\ { SansId(r) : r \in Rows(store, t) } = ExpectedSongplays
    ELSE store[t] = V(Current(t))

\* C4 as stated: a write failure ends the run at that step; the tables
\* written before it (songs, artists, users, time, songplays in that order)
\* hold the current run's data, and the table at the step and those after it
\* hold what they held before the run.  Nothing is rolled back.
C4_NoRollback ==
    /\ \A t \in written : HoldsCurrent(t)
    /\ \A t \in TableNames \ written : store[t] = prev[t]
    /\ (status = "failed" /\ EtlMain[pc] \in WriteSteps) =>
          written = { tables[j] : j \in 1 .. Position(TableOf(EtlMain[pc])) - 1 }

\* The table whose write raised, if one did.
FailedTable ==
    IF status = "failed" /\ EtlMain[pc] \in WriteSteps
    THEN { TableOf(EtlMain[pc]) } ELSE {}

\* C4 as amended: the same, but for the table at the failing step, which is
\* as it was before the run, or gone, or holds only some of the rows the
\* step was writing; the tables after it hold what they held before the run.
C4_NoRollbackButFailedTable ==
    /\ \A t \in written : HoldsCurrent(t)
    /\ \A t \in TableNames \ (written \cup FailedTable) : store[t] = prev[t]
    /\ \A t \in FailedTable :
          /\ written = { tables[j] : j \in 1 .. Position(t) - 1 }
          /\ \/ store[t] = prev[t]
             \/ store[t] = NULL
             \/ /\ t # "songplays"
                /\ Rows(store, t) \subseteq DOMAIN Current(t)
                /\ \A r \in Rows(store, t) : store[t][1][r] = Current(t)[r]
             \/ /\ t = "songplays"
                /\ { SansId(r) : r \in Rows(store, t) } \subseteq ExpectedSongplays

\* The write of time failed over an output path that held older tables and
\* left no time table: songs, artists and users are new, time is gone and
\* songplays is the old one.
C4_Witness ==
    /\ status = "failed"
    /\ EtlMain[pc] = "write_time"
    /\ prev = StaleStore
    /\ store["users"] # prev["users"]
    /\ store["time"] = NULL
    /\ store["songplays"] = prev["songplays"]

\* C5 as stated: every songplays row has a non-null song_id, that of a songs
\* row whose title equals the song of the log record the row is from.
C5_SongIdNonNull ==
    "songplays" \in written =>
        \A r \in Rows(store, "songplays") :
            /\ r.song_id # NULL
            /\ \E s \in Rows(store, "songs") :
                  /\ s.song_id = r.song_id
                  /\ SqlEq(s.title, log_data[r.origin.event].song)

\* C5 as amended: every songplays row carries the song_id column of a songs
\* row whose title is equal to the song of the log record the row is from,
\* both being non-null; the song_id itself is null when that songs row's is.
C5_SongIdOfMatchingTitle ==
    "songplays" \in written =>
        \A r \in Rows(store, "songplays") :
            /\ log_data[r.origin.event].song # NULL
            /\ \E s \in Rows(store, "songs") :
                  /\ s.song_id = r.song_id
                  /\ s.artist_id = r.artist_id
                  /\ s.title # NULL
                  /\ s.title = log_data[r.origin.event].song

\* A songplays row with a null song_id has been written.
C5_Witness ==
    /\ "songplays" \in written
    /\ \E r \in Rows(store, "songplays") : r.song_id = NULL

\* C6: the songplay_id values are unique, none is below 1, and they start
\* at 1: a songplays table that is not empty has a row of songplay_id 1.
\* (Rows are written partition by partition and row by row, which is the
\* order of their ids.)
C6_IdsFromOne ==
    "songplays" \in written =>
        /\ \A a, b \in Rows(store, "songplays") :
              a.songplay_id = b.songplay_id => a = b
        /\ \A r \in Rows(store, "songplays") : ~IdLess(r.songplay_id, IdOne)
        /\ Rows(store, "songplays") # {} =>
              \E r \in Rows(store, "songplays") : r.songplay_id = IdOne

\* C7 as stated: after a second run on the same inputs every table is as the
\* first run left it.
C7_Idempotent ==
    (run = "second" /\ status = "done") => store = prev

\* C7 as amended: after a second run on the same inputs songs, artists,
\* users and time are as the first run left them, and songplays holds the
\* same rows but for their songplay_id values.
C7_IdempotentButIds ==
    (run = "second" /\ status = "done") =>
        /\ \A t \in TableNames \ {"songplays"} : store[t] = prev[t]
        /\ WithoutIds(store["songplays"]) = WithoutIds(prev["songplays"])

\* A second run has ended with songplay_id values other than the first's.
C7_Witness ==
    /\ run = "second"
    /\ status = "done"
    /\ store["songplays"] # prev["songplays"]

\* C8: a log record whose page is not "NextSong" (NULL included) gives no
\* songplays row, and every time row is that of a "NextSong" record.
C8_OnlyNextSong ==
    /\ "songplays" \in written =>
          \A r \in Rows(store, "songplays") :
              log_data[r.origin.event].page = V("NextSong")
    /\ "time" \in written =>
          \A r \in Rows(store, "time") :
              \E i \in DOMAIN log_data :
                  /\ log_data[i].page = V("NextSong")
                  /\ r = TimeRow(log_data[i])

\* time and songplays are written from a log holding a record that is not a
\* "NextSong" one and whose song is a title of the songs table.
C8_Witness ==
    /\ {"time", "songplays"} \subseteq written
    /\ \E i \in DOMAIN log_data :
          /\ log_data[i].page # V("NextSong")
          /\ \E s \in Rows(store, "songs") : s.title = log_data[i].song

\* C9 as stated: no two rows of the songs table have the same song_id.
C9_UniqueBySongId ==
    "songs" \in written =>
        /\ \A r \in Rows(store, "songs") : store["songs"][1][r] = 1
        /\ \A a, b \in Rows(store, "songs") : a.song_id = b.song_id => a = b

\* C9 as amended: no two rows of the songs table agree on all five columns;
\* the rows are the distinct (song_id, title, artist_id, year, duration) of
\* the catalog records.
C9_UniqueByRow ==
    "songs" \in written =>
        /\ \A r \in Rows(store, "songs") : store["songs"][1][r] = 1
        /\ Rows(store, "songs") = { SongsRow(song_data[i]) : i \in DOMAIN song_data }

\* The songs table holds two rows of one song_id.
C9_Witness ==
    /\ "songs" \in written
    /\ \E a, b \in Rows(store, "songs") : a # b /\ a.song_id = b.song_id

\* The songplays rows that come from log record i and songs row s.
RowsFrom(i, s) ==
    { r \in Rows(store, "songplays") :
        /\ r.origin.event = i
        /\ r.origin.song = s
        /\ r.song_id = s.song_id
        /\ r.artist_id = s.artist_id
        /\ r.user_id = log_data[i].userId
        /\ r.session_id = log_data[i].sessionId }

\* C10: songplays is the inner join of the "NextSong" records with the songs
\* table on song = title: each pair of equal title gives exactly one row,
\* each other pair none, and there are no other rows.
C10_InnerJoinOnTitle ==
    "songplays" \in written =>
        /\ \A i \in DOMAIN log_data : \A s \in Rows(store, "songs") :
              Cardinality(RowsFrom(i, s)) =
                  IF /\ log_data[i].page = V("NextSong")
                     /\ log_data[i].song # NULL
                     /\ log_data[i].song = s.title
                  THEN 1 ELSE 0
        /\ \A r \in Rows(store, "songplays") :
              /\ store["songplays"][1][r] = 1
              /\ \E i \in DOMAIN log_data : \E s \in Rows(store, "songs") :
                    r \in RowsFrom(i, s)

\* One log record has given two songplays rows: its title is that of two
\* songs rows.
C10_Witness ==
    /\ "songplays" \in written
    /\ \E i \in DOMAIN log_data :
          Cardinality({ r \in Rows(store, "songplays") : r.origin.event = i }) = 2

====
